---- MODULE Spec2Model ----
(***************************************************************************)
(* Model of the Seaport SDK of src/utils/pure.js: order creation           *)
(* (SDK.createOrder), the fulfillment-strategy selector                    *)
(* (SDK.fulfillOrder), the payload-kind guards, the cross-order matcher    *)
(* (getFulFillmentArrByOrder, SDK.matchOrders), the approval oracle        *)
(* (getApprovalStatus) and item construction (SDK.getItem).                *)
(*                                                                         *)
(* The SDK keeps no state between calls.  One SDK call is one action: it   *)
(* runs the whole handler on inputs drawn from bounded sets and records    *)
(* the inputs, the remote calls made and the outcome.  Return gives        *)
(* control back to the caller, which may then make another call.  For the  *)
(* matcher the caller first takes hold of its own order (HoldOrder) and    *)
(* then has it matched with a second one.  createOrder awaits five remote  *)
(* calls in turn: it is one action per await, each remote call answering   *)
(* or being rejected.                                                      *)
(***************************************************************************)
EXTENDS Integers, Sequences, FiniteSets, TLC

VARIABLES
    pc,                   \* "idle": no call in progress; "held": the caller holds the
                          \* order it will have matched; "done": a call has completed;
                          \* otherwise the remote call createOrder is awaiting
    op,                   \* name of the SDK function that was called
    outcome,              \* "none" | "returned" | "threw"
    error,                \* message of the Error thrown ("" when none)
    calls,                \* names of the remote methods invoked (marketplaceContract's
                          \* and the signer's), in order
    order,                \* the `order` argument (after the call: as the call left it)
    criteriaResolvers,    \* the `criteriaResolvers` argument of fulfillOrder
    basicOrderParameters, \* the record handed to fulfillBasicOrder
    orderArr,             \* the argument of cancelOrders / validateOrders
    orderToMatch,         \* second argument of matchOrders / getFulFillmentArrByOrder
    gapAsset,             \* third argument of matchOrders: << >> (undefined) or << item >>
    fArr,                 \* value returned by getFulFillmentArrByOrder
    fulfillment,          \* fulfillments handed to marketplaceContract.matchOrders
    asset,                \* the `asset` argument of getApprovalStatus / getItem
    exchangeAddress,      \* the `exchangeAddress` (spender) argument of getApprovalStatus
    chain,                \* what the token collaborators answer to the approval reads
    approved,             \* value returned by getApprovalStatus
    item,                 \* value returned by getItem: << >> (undefined) or << item >>
    locals,               \* arguments and local constants of the createOrder call
    created               \* value returned by createOrder: << >> (none) or << record >>

vars == << pc, op, outcome, error, calls, order, criteriaResolvers,
           basicOrderParameters, orderArr, orderToMatch, gapAsset, fArr,
           fulfillment, asset, exchangeAddress, chain, approved, item,
           locals, created >>

-----------------------------------------------------------------------------
(* Bounds of the model *)

MaxOffer == 2        \* longest offer list handed to fulfillOrder
MaxCn == 3           \* longest consideration list handed to fulfillOrder
MaxResolvers == 1    \* longest criteriaResolvers list
MaxBatch == 2        \* longest array handed to cancelOrders / validateOrders
MaxMatchOffer == 2   \* longest offer list handed to the matcher
MaxMatchCn == 2      \* longest consideration list handed to the matcher
MaxItemTypeCode == 6 \* largest item-type code tried (5 is the last variant)
MaxAmount == 2       \* largest amount handed to item construction
MaxCreateOffer == 1  \* longest offer list handed to createOrder
MaxCreateCn == 2     \* longest consideration list handed to createOrder
MaxCounter == 1      \* largest counter the settlement contract answers

-----------------------------------------------------------------------------
(* JavaScript values that are only tested for truthiness *)

Undefined == [kind |-> "undefined", v |-> 0]
Num(n) == [kind |-> "number", v |-> n]
BigNum(n) == [kind |-> "object", v |-> n]     \* a BigNumber object

\* if (x): undefined and the number 0 are falsy, every object (a BigNumber
\* of any value included) is truthy
Truthy(x) == \/ x.kind = "object"
             \/ x.kind = "number" /\ x.v # 0

-----------------------------------------------------------------------------
(* Items and orders *)

ItemTypes == 0 .. 5      \* NATIVE, ERC20, ERC721, ERC1155, *_WITH_CRITERIA
OrderTypes == 0 .. 3     \* FULL_OPEN .. PARTIAL_RESTRICTED

Item(t, tok, id) ==
    [itemType |-> t, token |-> tok, identifierOrCriteria |-> id,
     startAmount |-> 1, endAmount |-> 1, recipient |-> "seller"]

\* One representative item of every item type
ItemOfType(t) ==
    CASE t = 0 -> Item(0, "0x0", 0)
      [] t = 1 -> Item(1, "U", 0)
      [] OTHER -> Item(t, "T", 1)

SeqsUpTo(S, n) == UNION { [1 .. k -> S] : k \in 0 .. n }

NoItem == Item(0, "", 0)

NoParameters == [offer |-> << >>, consideration |-> << >>, orderType |-> 0]

NoOrder == [counter |-> Undefined, hasParameters |-> FALSE,
            numerator |-> Undefined, parameters |-> NoParameters]

MkOrder(cnt, num, off, cn, ot) ==
    [counter |-> cnt, hasParameters |-> TRUE, numerator |-> num,
     parameters |-> [offer |-> off, consideration |-> cn, orderType |-> ot]]

\* An Order Components value: counter at top level, no `parameters` field
MkComponents(cnt) ==
    [counter |-> cnt, hasParameters |-> FALSE, numerator |-> Undefined,
     parameters |-> NoParameters]

-----------------------------------------------------------------------------
(* SDK.fulfillOrder *)

NoBasicOrderParameters ==
    [basicOrderType |-> 0, route |-> 0,
     offerToken |-> "", offerIdentifier |-> 0, offerAmount |-> 0,
     considerationToken |-> "", considerationIdentifier |-> 0,
     considerationAmount |-> 0,
     totalOriginalAdditionalRecipients |-> 0,
     additionalRecipients |-> << >>]

\* `route` records the basicOrderRouteType argument, which the code folds
\* into basicOrderType
getBasicOrderParameters(basicOrderRouteType, o) ==
    LET p == o.parameters IN
    [basicOrderType |-> p.orderType + 4 * basicOrderRouteType,
     route |-> basicOrderRouteType,
     offerToken |-> p.offer[1].token,
     offerIdentifier |-> p.offer[1].identifierOrCriteria,
     offerAmount |-> p.offer[1].endAmount,
     considerationToken |-> p.consideration[1].token,
     considerationIdentifier |-> p.consideration[1].identifierOrCriteria,
     considerationAmount |-> p.consideration[1].endAmount,
     totalOriginalAdditionalRecipients |-> Len(p.consideration) - 1,
     additionalRecipients |->
        [i \in 1 .. Len(p.consideration) - 1 |->
            [amount |-> p.consideration[i + 1].endAmount,
             recipient |-> p.consideration[i + 1].recipient]]]

\* consideration.slice(1)
Slice1(s) == [i \in 1 .. Len(s) - 1 |-> s[i + 1]]

\* The isBasic flag of fulfillOrder (left undefined, hence falsy, unless set);
\* consideration is not empty here
IsBasic(offer, consideration) ==
    LET cnItemType == consideration[1].itemType
        rest == Slice1(consideration) IN
    IF Len(offer) = 1
    THEN IF offer[1].itemType = 1
         THEN IF cnItemType = 2 \/ cnItemType = 3
              THEN ~ \E i \in 1 .. Len(rest) :
                        \/ rest[i].itemType = 0
                        \/ rest[i].itemType = 2
                        \/ rest[i].itemType = 3
              ELSE FALSE
         ELSE IF cnItemType = 0 \/ cnItemType = 1
              THEN ~ \E i \in 1 .. Len(rest) : rest[i].itemType # cnItemType
              ELSE FALSE
    ELSE FALSE

BasicOrderRouteType_Swapped(offerItemType, cnItemType) ==
    IF offerItemType = 1
    THEN (IF cnItemType = 2 THEN 2 ELSE 3)
    ELSE IF offerItemType = 2
         THEN (IF cnItemType = 0 THEN 0 ELSE 4)
         ELSE (IF cnItemType = 0 THEN 1 ELSE 5)

BasicOrderRouteType(offerItemType, cnItemType) ==
    IF offerItemType = 1
    THEN (IF cnItemType = 2 THEN 4 ELSE 5)
    ELSE IF offerItemType = 2
         THEN (IF cnItemType = 0 THEN 0 ELSE 2)
         ELSE (IF cnItemType = 0 THEN 1 ELSE 3)

IsAdvanced_NumeratorOnly(o, cr) == Truthy(o.numerator)

\* if (order.numerator || criteriaResolvers.length > 0)
IsAdvanced(o, cr) == Truthy(o.numerator) \/ Len(cr) > 0

Threw(msg) == [outcome |-> "threw", error |-> msg, calls |-> << >>,
               basic |-> NoBasicOrderParameters]

Called(fn, basic) == [outcome |-> "returned", error |-> "", calls |-> << fn >>,
                      basic |-> basic]

fulfillOrder(o, cr) ==
    IF Truthy(o.counter)
    THEN Threw("Not orderComponents, give me order")
    ELSE IF ~ o.hasParameters
    THEN Threw("TypeError")      \* destructuring order.parameters === undefined
    ELSE LET offer == o.parameters.offer
             consideration == o.parameters.consideration IN
         IF IsAdvanced(o, cr)
         THEN Called("fulfillAdvancedOrder", NoBasicOrderParameters)
         ELSE IF Len(consideration) = 0
         THEN Threw("TypeError")  \* consideration[0].itemType of undefined
         ELSE IF IsBasic(offer, consideration)
         THEN Called("fulfillBasicOrder",
                     getBasicOrderParameters(
                         BasicOrderRouteType(offer[1].itemType,
                                             consideration[1].itemType), o))
         ELSE Called("fulfillOrder", NoBasicOrderParameters)

-----------------------------------------------------------------------------
(* SDK.cancelOrders and SDK.validateOrders *)

\* Array.isArray(x) ? x : [x]
ToArray(x) == x.elems

\* orderComponentsArr.forEach(({ counter }) => { if (!counter) throw ... })
cancelOrders(x) ==
    IF \E i \in 1 .. Len(ToArray(x)) : ~ Truthy(ToArray(x)[i].counter)
    THEN Threw("Not order, Give me orderComponents")
    ELSE Called("cancel", NoBasicOrderParameters)

\* orderArr.forEach(({ counter }) => { if (counter) throw ... })
validateOrders(x) ==
    IF \E i \in 1 .. Len(ToArray(x)) : Truthy(ToArray(x)[i].counter)
    THEN Threw("Not orderComponents, give me order")
    ELSE Called("validate", NoBasicOrderParameters)

-----------------------------------------------------------------------------
(* getFulFillmentArrByOrder, getFulfillment and SDK.matchOrders *)

\* A fulfillment of fArr is << offerArr, considerationArr >>, each a list of
\* << orderIndex, itemIndex >> pairs with the code's 0-based indices

Mismatch_IdOnly(o, c) ==
    o.itemType # 1 /\ o.identifierOrCriteria # c.identifierOrCriteria

\* The condition under which a scan skips consideration item c for offer item o
Mismatch(o, c) ==
    \/ o.token # c.token
    \/ o.itemType # 1 /\ o.identifierOrCriteria # c.identifierOrCriteria

RECURSIVE ScanConsideration_StopOnERC20(_, _, _, _, _, _)
ScanConsideration_StopOnERC20(o, oOrder, oI, cn, cnOrder, j) ==
    IF j >= Len(cn) THEN << >>
    ELSE IF Mismatch(o, cn[j + 1])
    THEN ScanConsideration_StopOnERC20(o, oOrder, oI, cn, cnOrder, j + 1)
    ELSE << << << << oOrder, oI >> >>, << << cnOrder, j >> >> >> >>
         \o (IF o.itemType = 1 THEN << >>
             ELSE ScanConsideration_StopOnERC20(o, oOrder, oI, cn, cnOrder, j + 1))

\* One inner for loop: offer item o (item oI of order oOrder) against the
\* consideration list cn of order cnOrder, from index j on
RECURSIVE ScanConsideration(_, _, _, _, _, _)
ScanConsideration(o, oOrder, oI, cn, cnOrder, j) ==
    IF j >= Len(cn) THEN << >>
    ELSE IF Mismatch(o, cn[j + 1])
    THEN ScanConsideration(o, oOrder, oI, cn, cnOrder, j + 1)
    ELSE << << << << oOrder, oI >> >>, << << cnOrder, j >> >> >> >>
         \o (IF o.itemType # 1 THEN << >>
             ELSE ScanConsideration(o, oOrder, oI, cn, cnOrder, j + 1))

RECURSIVE ScanOffers_OwnListFirst(_, _, _, _, _)
ScanOffers_OwnListFirst(offer, oOrder, oI, cnOther, cnOwn) ==
    IF oI >= Len(offer) THEN << >>
    ELSE LET o == offer[oI + 1] IN
         (IF o.itemType # 1 THEN << >>
          ELSE ScanConsideration(o, oOrder, oI, cnOwn, oOrder, 0))
         \o ScanConsideration(o, oOrder, oI, cnOther, 1 - oOrder, 0)
         \o ScanOffers_OwnListFirst(offer, oOrder, oI + 1, cnOther, cnOwn)

RECURSIVE ScanOffers_OwnListForEveryItem(_, _, _, _, _)
ScanOffers_OwnListForEveryItem(offer, oOrder, oI, cnOther, cnOwn) ==
    IF oI >= Len(offer) THEN << >>
    ELSE LET o == offer[oI + 1] IN
         ScanConsideration(o, oOrder, oI, cnOther, 1 - oOrder, 0)
         \o ScanConsideration(o, oOrder, oI, cnOwn, oOrder, 0)
         \o ScanOffers_OwnListForEveryItem(offer, oOrder, oI + 1, cnOther, cnOwn)

\* One outer for loop: the offer list of order oOrder, from index oI on,
\* first against the other order's consideration list, then (only reached
\* by ERC20 offer items) against its own
RECURSIVE ScanOffers(_, _, _, _, _)
ScanOffers(offer, oOrder, oI, cnOther, cnOwn) ==
    IF oI >= Len(offer) THEN << >>
    ELSE LET o == offer[oI + 1] IN
         ScanConsideration(o, oOrder, oI, cnOther, 1 - oOrder, 0)
         \o (IF o.itemType # 1 THEN << >>
             ELSE ScanConsideration(o, oOrder, oI, cnOwn, oOrder, 0))
         \o ScanOffers(offer, oOrder, oI + 1, cnOther, cnOwn)

getFulFillmentArrByOrder(o, oTM) ==
    ScanOffers(o.parameters.offer, 0, 0,
               oTM.parameters.consideration, o.parameters.consideration)
    \o ScanOffers(oTM.parameters.offer, 1, 0,
                  o.parameters.consideration, oTM.parameters.consideration)

toFulfillmentComponents(arr) ==
    [i \in 1 .. Len(arr) |-> [orderIndex |-> arr[i][1], itemIndex |-> arr[i][2]]]

toFulfillment(offerArr, considerationsArr) ==
    [offerComponents |-> toFulfillmentComponents(offerArr),
     considerationComponents |-> toFulfillmentComponents(considerationsArr)]

getFulfillment(arr) == [i \in 1 .. Len(arr) |-> toFulfillment(arr[i][1], arr[i][2])]

\* fArr[1][1].push([0, 1])
PushGapReference(f) ==
    [f EXCEPT ![2] = << f[2][1], Append(f[2][2], << 0, 1 >>) >>]

\* order.parameters.consideration.push(gapAsset)
PushGapAsset(o, gap) ==
    [o EXCEPT !.parameters.consideration = Append(@, gap)]

\* gap is << >> when no gapAsset is passed
matchOrders(o, oTM, gap) ==
    LET f == getFulFillmentArrByOrder(o, oTM) IN
    IF gap = << >>
    THEN [outcome |-> "returned", error |-> "", calls |-> << "matchOrders" >>,
          order |-> o, fulfillment |-> getFulfillment(f)]
    ELSE IF Len(f) < 2
    THEN [outcome |-> "threw", error |-> "TypeError", calls |-> << >>,
          order |-> o, fulfillment |-> << >>]   \* fArr[1] is undefined
    ELSE [outcome |-> "returned", error |-> "", calls |-> << "matchOrders" >>,
          order |-> PushGapAsset(o, gap[1]),
          fulfillment |-> getFulfillment(PushGapReference(f))]

-----------------------------------------------------------------------------
(* BigNumber: a non-negative integer as four limbs in base 10^9, most       *)
(* significant first                                                        *)

LimbBase == 1000000000

BN(n) == << 0, 0, 0, n >>

BNAdd(a, b) ==
    LET s4 == a[4] + b[4]
        s3 == a[3] + b[3] + (s4 \div LimbBase)
        s2 == a[2] + b[2] + (s3 \div LimbBase)
        s1 == a[1] + b[1] + (s2 \div LimbBase) IN
    << s1 % LimbBase, s2 % LimbBase, s3 % LimbBase, s4 % LimbBase >>

\* a.sub(b), for a >= b
BNSub(a, b) ==
    LET d4 == a[4] - b[4]
        d3 == a[3] - b[3] - (IF d4 < 0 THEN 1 ELSE 0)
        d2 == a[2] - b[2] - (IF d3 < 0 THEN 1 ELSE 0)
        d1 == a[1] - b[1] - (IF d2 < 0 THEN 1 ELSE 0) IN
    << d1 % LimbBase, d2 % LimbBase, d3 % LimbBase, d4 % LimbBase >>

\* a.gt(b)
BNGt(a, b) ==
    \E i \in 1 .. 4 : a[i] > b[i] /\ \A k \in 1 .. i - 1 : a[k] = b[k]

\* a.gte(b)
BNGte(a, b) == a = b \/ BNGt(a, b)

\* acc doubled n times
RECURSIVE BNDoubled(_, _)
BNDoubled(acc, n) ==
    IF n = 0 \/ acc = BN(0) THEN acc ELSE BNDoubled(BNAdd(acc, acc), n - 1)

\* BigNumber.from(2).pow(n)
BNPow2(n) == BNDoubled(BN(1), n)

\* parseEther(String(n)) for a whole number n of ether: n * 10^18
parseEther(n) == << 0, n, 0, 0 >>

-----------------------------------------------------------------------------
(* getApprovalStatus *)

MAX_APPROVAL == BNPow2(118)

\* BigNumber.from(MAX_APPROVAL.toString()).sub("100000000000000000")
MAX_APPROVAL_WITH_BUFFER == BNSub(MAX_APPROVAL, << 0, 0, 100000000, 0 >>)

\* An address is its sequence of characters after the 0x prefix
LowerChar(c) == CASE c = "A" -> "a" [] c = "B" -> "b" [] OTHER -> c

toLowerCase(addr) == [i \in 1 .. Len(addr) |-> LowerChar(addr[i])]

NoChain == [allowance |-> BN(0), isApprovedForAll |-> FALSE, getApproved |-> << >>]

NoAsset == [itemType |-> 0, token |-> << >>, startAmount |-> << >>,
            endAmount |-> << >>, tokenId |-> << >>, recipient |-> << >>,
            root |-> << >>]

\* switch (asset.itemType): the labels `case 2 || 4` and `case 3 || 5` are
\* the values 2 and 3
getApprovalStatus(exchange, a, reads) ==
    CASE a.itemType = 0 ->
            [outcome |-> "returned", error |-> "", value |-> TRUE]
      [] a.itemType = 1 ->
            [outcome |-> "returned", error |-> "",
             value |-> BNGte(reads.allowance, MAX_APPROVAL_WITH_BUFFER)]
      [] a.itemType = 2 ->
            [outcome |-> "returned", error |-> "",
             value |-> \/ reads.isApprovedForAll
                       \/ toLowerCase(reads.getApproved) = toLowerCase(exchange)]
      [] a.itemType = 3 ->
            [outcome |-> "returned", error |-> "",
             value |-> reads.isApprovedForAll]
      [] OTHER ->
            [outcome |-> "threw", error |-> "Unexpected itemType", value |-> FALSE]

-----------------------------------------------------------------------------
(* Item construction *)

ZeroAddress == << "0" >>

\* A default parameter value: used when the argument is undefined (<< >>)
OrDefault(arg, dflt) == IF arg = << >> THEN dflt ELSE arg[1]

\* Digits of Number(n).toString(16), most significant first
RECURSIVE HexDigits(_)
HexDigits(n) == IF n < 16 THEN << n >> ELSE Append(HexDigits(n \div 16), n % 16)

RECURSIVE FromHexDigits(_)
FromHexDigits(d) ==
    IF Len(d) = 0 THEN 0
    ELSE 16 * FromHexDigits(SubSeq(d, 1, Len(d) - 1)) + d[Len(d)]

\* toBN(x) = BigNumber.from(toHex(x)), for x a number Num(n) or a BigNumber
\* BigNum(limbs): a BigNumber keeps its value, a number goes through its
\* hexadecimal digits
toBN(x) == IF x.kind = "object" THEN x.v ELSE BN(FromHexDigits(HexDigits(x.v)))

\* The arguments are << >> when undefined, << value >> otherwise
getOfferOrConsiderationItem(itemType, token, identifierOrCriteria, startAmount, endAmount, recipient) ==
    [itemType |-> OrDefault(itemType, 0),
     token |-> OrDefault(token, ZeroAddress),
     identifierOrCriteria |-> toBN(OrDefault(identifierOrCriteria, Num(0))),
     startAmount |-> toBN(OrDefault(startAmount, Num(1))),
     endAmount |-> toBN(OrDefault(endAmount, Num(1))),
     recipient |-> recipient]      \* the field is absent when not a string

Returned(v) == [outcome |-> "returned", error |-> "", item |-> << v >>]

\* parseEther(String(undefined)) throws
ParseEtherFails(amount) == amount = << >>

\* getItemETH and getItem20: endAmount = startAmount when undefined
getItemFungible(itemType, token, startAmount, endAmount, recipient) ==
    LET endA == IF endAmount = << >> THEN startAmount ELSE endAmount IN
    IF ParseEtherFails(startAmount) \/ ParseEtherFails(endA)
    THEN [outcome |-> "threw", error |-> "invalid decimal value", item |-> << >>]
    ELSE Returned(getOfferOrConsiderationItem(
                    << itemType >>, token, << Num(0) >>,
                    << BigNum(parseEther(startAmount[1].v)) >>,
                    << BigNum(parseEther(endA[1].v)) >>,
                    recipient))

\* getItem1155 and getItem1155WithCriteria: startAmount = 1 and
\* endAmount = startAmount when undefined
getItemSemiFungible(itemType, token, identifierOrCriteria, startAmount, endAmount, recipient) ==
    LET startA == << OrDefault(startAmount, Num(1)) >>
        endA == IF endAmount = << >> THEN startA ELSE endAmount IN
    Returned(getOfferOrConsiderationItem(
                << itemType >>, token, identifierOrCriteria, startA, endA, recipient))

\* switch (itemType) without a default: undefined is returned for any other
\* code
getItem(a) ==
    CASE a.itemType = 0 ->
            getItemFungible(0, << ZeroAddress >>, a.startAmount, a.endAmount,
                            a.recipient)
      [] a.itemType = 1 ->
            getItemFungible(1, a.token, a.startAmount, a.endAmount, a.recipient)
      [] a.itemType = 2 ->
            Returned(getOfferOrConsiderationItem(
                        << 2 >>, a.token, a.tokenId, << Num(1) >>, << Num(1) >>, a.recipient))
      [] a.itemType = 3 ->
            getItemSemiFungible(3, a.token, a.tokenId, a.startAmount, a.endAmount,
                                a.recipient)
      [] a.itemType = 4 ->
            Returned(getOfferOrConsiderationItem(
                        << 4 >>, a.token, a.root, << Num(1) >>, << Num(1) >>, a.recipient))
      [] a.itemType = 5 ->
            getItemSemiFungible(5, a.token, a.root, a.startAmount, a.endAmount,
                                a.recipient)
      [] OTHER -> [outcome |-> "returned", error |-> "", item |-> << >>]

-----------------------------------------------------------------------------
(* SDK.createOrder *)

HashZero == "0x00"

\* convertSignatureToEIP2098: a signature is its length in hexadecimal
\* characters and whether it is in compact form
convertSignatureToEIP2098(signature) ==
    IF signature.length = 130
    THEN [outcome |-> "returned", signature |-> signature]
    ELSE IF signature.length # 132
    THEN [outcome |-> "threw", signature |-> signature]
    ELSE [outcome |-> "returned", signature |-> [length |-> 130, compact |-> TRUE]]

\* const orderParameters = { offerer: offerAddress, ..., offer, consideration, ... }
orderParameters(offerAddress, offer, consideration, orderType, salt) ==
    [offerer |-> offerAddress, offer |-> offer, consideration |-> consideration,
     totalOriginalConsiderationItems |-> Len(consideration),
     orderType |-> orderType, salt |-> salt]

orderComponents_CounterZero(parameters, counter) ==
    [f \in DOMAIN parameters \cup { "counter" } |->
        IF f = "counter" THEN BigNum(BN(0)) ELSE parameters[f]]

\* const orderComponents = { ...orderParameters, counter }
orderComponents(parameters, counter) ==
    [f \in DOMAIN parameters \cup { "counter" } |->
        IF f = "counter" THEN counter ELSE parameters[f]]

NativeAmount_EndAmount(x) ==
    IF x.itemType = 0 THEN x.endAmount ELSE toBN(Num(0))

\* x.itemType === 0 ? (x.endAmount.gt(x.startAmount) ? x.endAmount : x.startAmount) : toBN(0)
NativeAmount(x) ==
    IF x.itemType = 0
    THEN (IF BNGt(x.endAmount, x.startAmount) THEN x.endAmount ELSE x.startAmount)
    ELSE toBN(Num(0))

\* items.map(NativeAmount).reduce((a, b) => a.add(b), acc), from item i on
RECURSIVE ReduceAdd(_, _, _)
ReduceAdd(items, i, acc) ==
    IF i > Len(items) THEN acc
    ELSE ReduceAdd(items, i + 1, BNAdd(acc, NativeAmount(items[i])))

\* How much ether (at most) needs to be supplied when fulfilling the order
createOrderValue(offer, consideration) ==
    BNAdd(ReduceAdd(offer, 1, toBN(Num(0))),
          ReduceAdd(consideration, 1, toBN(Num(0))))

\* The order createOrder returns: no counter field, numerator 1
createdOrder(parameters, signature) ==
    [counter |-> Undefined, hasParameters |-> TRUE, parameters |-> parameters,
     signature |-> signature, numerator |-> Num(1), denominator |-> Num(1)]

\* The arguments and local constants of createOrder; a local not yet
\* assigned is << >>, an assigned one << value >>
NoLocals ==
    [offer |-> << >>, consideration |-> << >>, orderType |-> 0,
     extraCheap |-> FALSE, offerAddress |-> << >>, counter |-> << >>,
     orderParameters |-> << >>, orderComponents |-> << >>,
     orderHash |-> << >>, orderStatus |-> << >>,
     hashed |-> << >>,      \* the argument of marketplaceContract.getOrderHash
     signed |-> << >>]      \* the orderComponents argument of _signTypedData

-----------------------------------------------------------------------------
(* Inputs *)

FulfillItems == { ItemOfType(t) : t \in ItemTypes }

\* fulfillOrder reads of the offer list its length and its first item: the
\* first item is of any type, the further ones are ERC20 or ERC721
OfferTailItems == { ItemOfType(1), ItemOfType(2) }

OfferLists ==
    { << >> }
    \cup { << first >> \o tail :
            first \in FulfillItems, tail \in SeqsUpTo(OfferTailItems, MaxOffer - 1) }
CnLists == SeqsUpTo(FulfillItems, MaxCn)

ResolverLists == SeqsUpTo({"resolver"}, MaxResolvers)

CounterValues == { Undefined, Num(0), Num(1), BigNum(0) }

\* The remaining fields of the value handed to fulfillOrder, with the
\* criteriaResolvers argument (cr): a falsy numerator under every order
\* type, a numerator or criteria resolvers, and a counter field added
FulfillAttrs ==
    { [counter |-> Undefined, numerator |-> Num(0), orderType |-> ot, cr |-> << >>] :
        ot \in OrderTypes }
    \cup { [counter |-> Undefined, numerator |-> num, orderType |-> 0, cr |-> cr] :
        num \in { Undefined, Num(1) }, cr \in { << >> } }
    \cup { [counter |-> Undefined, numerator |-> Num(1), orderType |-> 0, cr |-> cr] :
        cr \in ResolverLists \ { << >> } }
    \cup { [counter |-> Undefined, numerator |-> num, orderType |-> 0, cr |-> cr] :
        num \in { Undefined, Num(0) }, cr \in ResolverLists \ { << >> } }
    \cup { [counter |-> cnt, numerator |-> Num(0), orderType |-> 0, cr |-> << >>] :
        cnt \in CounterValues \ { Undefined } }

\* Values handed to cancelOrders / validateOrders: Orders (counter absent)
\* and Order Components (counter present, of any value)
GuardValues ==
    { MkOrder(Undefined, Num(1), << ItemOfType(2) >>, << ItemOfType(1) >>, 0) }
    \cup { MkComponents(cnt) : cnt \in CounterValues \ { Undefined } }

GuardInputs ==
    { [isArray |-> FALSE, elems |-> << v >>] : v \in GuardValues }
    \cup { [isArray |-> TRUE, elems |-> s] : s \in SeqsUpTo(GuardValues, MaxBatch) }

NoInput == [isArray |-> TRUE, elems |-> << >>]

\* Items handed to the matcher: a fungible item and two non-fungible items
\* of one collection, one of them sharing the fungible item's identifier 0
MatchItems == { Item(1, "U", 0), Item(2, "T", 0), Item(2, "T", 1) }

MatchOfferLists == SeqsUpTo(MatchItems, MaxMatchOffer)
MatchCnLists == SeqsUpTo(MatchItems, MaxMatchCn)

GapAssets == { << >>, << Item(1, "U", 0) >> }

\* Item-type codes handed to getApprovalStatus and to item construction:
\* the six variants and codes outside them
ItemTypeCodes == 0 .. MaxItemTypeCode

Addresses == { << "a", "b" >>, << "A", "B" >>, << "a", "B" >>, << "c", "d" >> }

One == BN(1)

Allowances ==
    { BN(0), BNSub(MAX_APPROVAL_WITH_BUFFER, One), MAX_APPROVAL_WITH_BUFFER,
      BNAdd(MAX_APPROVAL_WITH_BUFFER, One), MAX_APPROVAL }

Opt(S) == { << >> } \cup { << x >> : x \in S }

Amounts == { Num(n) : n \in 1 .. MaxAmount }

TokenIds == { Num(n) : n \in { 0, 17 } }

Assets ==
    [itemType : ItemTypeCodes, token : { << << "c", "d" >> >> },
     startAmount : Opt(Amounts), endAmount : Opt(Amounts),
     tokenId : Opt(TokenIds), recipient : Opt({ << "a", "b" >> }),
     root : Opt({ Num(255) })]

\* An item handed to createOrder: its amounts are BigNumbers
CreateItem(t, tok, startAmount, endAmount) ==
    [Item(t, tok, 0) EXCEPT !.startAmount = startAmount, !.endAmount = endAmount]

\* Native items whose amount rises and falls, an ERC20 and an ERC721 item
CreateItems ==
    { CreateItem(0, "0x0", BN(1), BN(400000000)),
      CreateItem(0, "0x0", BN(400000000), BN(1)),
      CreateItem(1, "U", BN(400000000), BN(400000000)),
      CreateItem(2, "T", BN(1), BN(1)) }

CreateOfferLists == SeqsUpTo(CreateItems, MaxCreateOffer)
CreateCnLists == SeqsUpTo(CreateItems, MaxCreateCn)

\* FULL_OPEN and PARTIAL_OPEN
CreateOrderTypes == { 0, 1 }

\* What the remote collaborators answer to createOrder
Counters == { BigNum(BN(n)) : n \in 0 .. MaxCounter }
RandomHexes == { "0xr" }
OrderHashes == { "0xh" }
OrderStatuses == { [isValidated |-> FALSE, isCancelled |-> FALSE] }
Signatures == { [length |-> n, compact |-> FALSE] : n \in { 130, 131, 132 } }

\* The positions at which createOrder awaits a remote call
Awaiting == { "getAddress", "getCounter", "getOrderHash", "getOrderStatus", "_signTypedData" }

-----------------------------------------------------------------------------
(* The state machine *)

Init ==
    /\ pc = "idle"
    /\ op = "none"
    /\ outcome = "none"
    /\ error = ""
    /\ calls = << >>
    /\ order = NoOrder
    /\ criteriaResolvers = << >>
    /\ basicOrderParameters = NoBasicOrderParameters
    /\ orderArr = NoInput
    /\ orderToMatch = NoOrder
    /\ gapAsset = << >>
    /\ fArr = << >>
    /\ fulfillment = << >>
    /\ asset = NoAsset
    /\ exchangeAddress = << >>
    /\ chain = NoChain
    /\ approved = FALSE
    /\ item = << >>
    /\ locals = NoLocals
    /\ created = << >>

FulfillOrder ==
    /\ pc = "idle"
    /\ \E off \in OfferLists, cn \in CnLists, a \in FulfillAttrs :
        LET o == MkOrder(a.counter, a.numerator, off, cn, a.orderType)
            r == fulfillOrder(o, a.cr) IN
        /\ pc' = "done"
        /\ op' = "fulfillOrder"
        /\ order' = o
        /\ criteriaResolvers' = a.cr
        /\ outcome' = r.outcome
        /\ error' = r.error
        /\ calls' = r.calls
        /\ basicOrderParameters' = r.basic
    /\ UNCHANGED << locals, created, orderArr, orderToMatch, gapAsset, fArr, fulfillment, asset, exchangeAddress, chain, approved, item >>

\* fulfillOrder handed an Order Components value (no `parameters` field)
FulfillOrderComponents ==
    /\ pc = "idle"
    /\ \E cnt \in CounterValues \ { Undefined }, cr \in ResolverLists :
        LET o == MkComponents(cnt)
            r == fulfillOrder(o, cr) IN
        /\ pc' = "done"
        /\ op' = "fulfillOrder"
        /\ order' = o
        /\ criteriaResolvers' = cr
        /\ outcome' = r.outcome
        /\ error' = r.error
        /\ calls' = r.calls
        /\ basicOrderParameters' = r.basic
    /\ UNCHANGED << locals, created, orderArr, orderToMatch, gapAsset, fArr, fulfillment, asset, exchangeAddress, chain, approved, item >>

CancelOrders ==
    /\ pc = "idle"
    /\ \E x \in GuardInputs :
        LET r == cancelOrders(x) IN
        /\ pc' = "done"
        /\ op' = "cancelOrders"
        /\ orderArr' = x
        /\ outcome' = r.outcome
        /\ error' = r.error
        /\ calls' = r.calls
    /\ UNCHANGED << locals, created, order, criteriaResolvers, basicOrderParameters, orderToMatch,
                    gapAsset, fArr, fulfillment, asset, exchangeAddress, chain, approved, item >>

ValidateOrders ==
    /\ pc = "idle"
    /\ \E x \in GuardInputs :
        LET r == validateOrders(x) IN
        /\ pc' = "done"
        /\ op' = "validateOrders"
        /\ orderArr' = x
        /\ outcome' = r.outcome
        /\ error' = r.error
        /\ calls' = r.calls
    /\ UNCHANGED << locals, created, order, criteriaResolvers, basicOrderParameters, orderToMatch,
                    gapAsset, fArr, fulfillment, asset, exchangeAddress, chain, approved, item >>

\* The caller takes the order it wants matched, one it created or was
\* handed, and then looks for an order to match it with
HoldOrder ==
    /\ pc = "idle"
    /\ \E off \in MatchOfferLists, cn \in MatchCnLists :
        /\ pc' = "held"
        /\ order' = MkOrder(Undefined, Num(1), off, cn, 0)
    /\ UNCHANGED << locals, created, op, outcome, error, calls, criteriaResolvers, basicOrderParameters,
                    orderArr, orderToMatch, gapAsset, fArr, fulfillment, asset,
                    exchangeAddress, chain, approved, item >>

GetFulFillmentArrByOrder ==
    /\ pc = "held"
    /\ \E offTM \in MatchOfferLists, cnTM \in MatchCnLists :
        LET oTM == MkOrder(Undefined, Num(1), offTM, cnTM, 0) IN
        /\ pc' = "done"
        /\ op' = "getFulFillmentArrByOrder"
        /\ orderToMatch' = oTM
        /\ fArr' = getFulFillmentArrByOrder(order, oTM)
        /\ outcome' = "returned"
    /\ UNCHANGED << locals, created, error, calls, order, criteriaResolvers, basicOrderParameters,
                    orderArr, gapAsset, fulfillment, asset, exchangeAddress, chain,
                    approved, item >>

MatchOrders ==
    /\ pc = "held"
    /\ \E offTM \in MatchOfferLists, cnTM \in MatchCnLists, gap \in GapAssets :
        LET oTM == MkOrder(Undefined, Num(1), offTM, cnTM, 0)
            r == matchOrders(order, oTM, gap) IN
        /\ pc' = "done"
        /\ op' = "matchOrders"
        /\ order' = r.order
        /\ orderToMatch' = oTM
        /\ gapAsset' = gap
        /\ fulfillment' = r.fulfillment
        /\ outcome' = r.outcome
        /\ error' = r.error
        /\ calls' = r.calls
    /\ UNCHANGED << locals, created, criteriaResolvers, basicOrderParameters, orderArr, fArr,
                    asset, exchangeAddress, chain, approved, item >>

\* The remote reads (allowance, isApprovedForAll, getApproved) answer with
\* whatever the token contracts hold
GetApprovalStatus ==
    /\ pc = "idle"
    /\ \E t \in ItemTypeCodes, ex \in Addresses, al \in Allowances,
          all \in BOOLEAN, ap \in Addresses :
        LET a == [NoAsset EXCEPT !.itemType = t]
            reads == [allowance |-> al, isApprovedForAll |-> all, getApproved |-> ap]
            r == getApprovalStatus(ex, a, reads) IN
        /\ pc' = "done"
        /\ op' = "getApprovalStatus"
        /\ asset' = a
        /\ exchangeAddress' = ex
        /\ chain' = reads
        /\ outcome' = r.outcome
        /\ error' = r.error
        /\ approved' = r.value
    /\ UNCHANGED << locals, created, calls, order, criteriaResolvers, basicOrderParameters, orderArr,
                    orderToMatch, gapAsset, fArr, fulfillment, item >>

GetItem ==
    /\ pc = "idle"
    /\ \E a \in Assets :
        LET r == getItem(a) IN
        /\ pc' = "done"
        /\ op' = "getItem"
        /\ asset' = a
        /\ outcome' = r.outcome
        /\ error' = r.error
        /\ item' = r.item
    /\ UNCHANGED << locals, created, calls, order, criteriaResolvers, basicOrderParameters, orderArr,
                    orderToMatch, gapAsset, fArr, fulfillment, exchangeAddress,
                    chain, approved >>

\* getOfferOrConsiderationItem called directly; asset records its arguments
\* (tokenId: the identifierOrCriteria argument)
GetOfferOrConsiderationItem ==
    /\ pc = "idle"
    /\ \E a \in Assets :
        /\ a.root = << >>
        /\ pc' = "done"
        /\ op' = "getOfferOrConsiderationItem"
        /\ asset' = a
        /\ outcome' = "returned"
        /\ item' = << getOfferOrConsiderationItem(
                        << a.itemType >>, a.token, a.tokenId, a.startAmount,
                        a.endAmount, a.recipient) >>
    /\ UNCHANGED << locals, created, error, calls, order, criteriaResolvers, basicOrderParameters,
                    orderArr, orderToMatch, gapAsset, fArr, fulfillment,
                    exchangeAddress, chain, approved >>

\* createOrder is called and awaits offerer.getAddress()
CreateOrder ==
    /\ pc = "idle"
    /\ \E offer \in CreateOfferLists, consideration \in CreateCnLists,
          orderType \in CreateOrderTypes, extraCheap \in BOOLEAN :
        /\ pc' = "getAddress"
        /\ op' = "createOrder"
        /\ calls' = << "getAddress" >>
        /\ locals' = [NoLocals EXCEPT !.offer = offer,
                                      !.consideration = consideration,
                                      !.orderType = orderType,
                                      !.extraCheap = extraCheap]
    /\ UNCHANGED << outcome, error, created, order, criteriaResolvers, basicOrderParameters, orderArr,
                    orderToMatch, gapAsset, fArr, fulfillment, asset, exchangeAddress,
                    chain, approved, item >>

\* getAddress answers: createOrder awaits marketplaceContract.getCounter
GetAddressReturns ==
    /\ pc = "getAddress"
    /\ pc' = "getCounter"
    /\ calls' = Append(calls, "getCounter")
    /\ locals' = [locals EXCEPT !.offerAddress = << "offerer" >>]
    /\ UNCHANGED << op, outcome, error, created, order, criteriaResolvers, basicOrderParameters, orderArr,
                    orderToMatch, gapAsset, fArr, fulfillment, asset, exchangeAddress,
                    chain, approved, item >>

\* getCounter answers: createOrder picks the salt, builds orderParameters
\* and orderComponents and awaits getOrderHash(orderComponents)
GetCounterReturns ==
    /\ pc = "getCounter"
    /\ \E counter \in Counters, randomHex \in RandomHexes :
        LET salt == IF ~ locals.extraCheap THEN randomHex ELSE HashZero
            parameters == orderParameters(locals.offerAddress[1], locals.offer,
                                          locals.consideration, locals.orderType, salt)
            components == orderComponents(parameters, counter) IN
        /\ pc' = "getOrderHash"
        /\ calls' = Append(calls, "getOrderHash")
        /\ locals' = [locals EXCEPT !.counter = << counter >>,
                                    !.orderParameters = << parameters >>,
                                    !.orderComponents = << components >>,
                                    !.hashed = << components >>]
    /\ UNCHANGED << op, outcome, error, created, order, criteriaResolvers, basicOrderParameters, orderArr,
                    orderToMatch, gapAsset, fArr, fulfillment, asset, exchangeAddress,
                    chain, approved, item >>

\* getOrderHash answers: createOrder awaits getOrderStatus(orderHash)
GetOrderHashReturns ==
    /\ pc = "getOrderHash"
    /\ \E orderHash \in OrderHashes :
        /\ pc' = "getOrderStatus"
        /\ calls' = Append(calls, "getOrderStatus")
        /\ locals' = [locals EXCEPT !.orderHash = << orderHash >>]
    /\ UNCHANGED << op, outcome, error, created, order, criteriaResolvers, basicOrderParameters, orderArr,
                    orderToMatch, gapAsset, fArr, fulfillment, asset, exchangeAddress,
                    chain, approved, item >>

\* getOrderStatus answers: createOrder awaits signOrder, that is
\* signer._signTypedData(domainData, orderType, orderComponents)
GetOrderStatusReturns ==
    /\ pc = "getOrderStatus"
    /\ \E orderStatus \in OrderStatuses :
        /\ pc' = "_signTypedData"
        /\ calls' = Append(calls, "_signTypedData")
        /\ locals' = [locals EXCEPT !.orderStatus = << orderStatus >>,
                                    !.signed = locals.orderComponents]
    /\ UNCHANGED << op, outcome, error, created, order, criteriaResolvers, basicOrderParameters, orderArr,
                    orderToMatch, gapAsset, fArr, fulfillment, asset, exchangeAddress,
                    chain, approved, item >>

\* _signTypedData answers: createOrder builds the order, computes value and
\* returns, unless the signature cannot be converted
SignTypedDataReturns ==
    /\ pc = "_signTypedData"
    /\ \E flatSig \in Signatures :
        LET conv == IF ~ locals.extraCheap
                    THEN [outcome |-> "returned", signature |-> flatSig]
                    ELSE convertSignatureToEIP2098(flatSig) IN
        /\ pc' = "done"
        /\ outcome' = conv.outcome
        /\ error' = IF conv.outcome = "threw"
                    THEN "invalid signature length (must be 64 or 65 bytes)"
                    ELSE ""
        /\ created' =
              IF conv.outcome = "threw" THEN << >>
              ELSE << [order |-> createdOrder(locals.orderParameters[1], conv.signature),
                       orderHash |-> locals.orderHash[1],
                       value |-> createOrderValue(locals.offer, locals.consideration),
                       orderStatus |-> locals.orderStatus[1],
                       orderComponents |-> locals.orderComponents[1]] >>
    /\ UNCHANGED << op, calls, locals, order, criteriaResolvers, basicOrderParameters, orderArr,
                    orderToMatch, gapAsset, fArr, fulfillment, asset, exchangeAddress,
                    chain, approved, item >>

\* The remote call createOrder awaits is rejected: the rejection leaves
\* createOrder, which has no try / catch
RemoteCallFails ==
    /\ pc \in Awaiting
    /\ pc' = "done"
    /\ outcome' = "threw"
    /\ error' = "rejected"
    /\ UNCHANGED << op, calls, locals, created, order, criteriaResolvers, basicOrderParameters, orderArr,
                    orderToMatch, gapAsset, fArr, fulfillment, asset, exchangeAddress,
                    chain, approved, item >>

\* The caller hands the order createOrder returned to fulfillOrder, without
\* criteria resolvers
FulfillCreatedOrder ==
    /\ pc = "done"
    /\ op = "createOrder"
    /\ outcome = "returned"
    /\ LET r == fulfillOrder(created[1].order, << >>) IN
        /\ op' = "fulfillOrder"
        /\ order' = created[1].order
        /\ criteriaResolvers' = << >>
        /\ outcome' = r.outcome
        /\ error' = r.error
        /\ calls' = r.calls
        /\ basicOrderParameters' = r.basic
    /\ UNCHANGED << pc, locals, created, orderArr, orderToMatch, gapAsset, fArr,
                    fulfillment, asset, exchangeAddress, chain, approved, item >>

\* The call is over; the SDK holds nothing of it
Return ==
    /\ pc = "done"
    /\ pc' = "idle"
    /\ op' = "none"
    /\ outcome' = "none"
    /\ error' = ""
    /\ calls' = << >>
    /\ order' = NoOrder
    /\ criteriaResolvers' = << >>
    /\ basicOrderParameters' = NoBasicOrderParameters
    /\ orderArr' = NoInput
    /\ orderToMatch' = NoOrder
    /\ gapAsset' = << >>
    /\ fArr' = << >>
    /\ fulfillment' = << >>
    /\ asset' = NoAsset
    /\ exchangeAddress' = << >>
    /\ chain' = NoChain
    /\ approved' = FALSE
    /\ item' = << >>
    /\ locals' = NoLocals
    /\ created' = << >>

Next == FulfillOrder \/ FulfillOrderComponents \/ CancelOrders \/ ValidateOrders \/ Return

Spec == Init /\ [][Next]_vars

NextMatcher == HoldOrder \/ GetFulFillmentArrByOrder \/ Return

SpecMatcher == Init /\ [][NextMatcher]_vars

NextMatch == HoldOrder \/ GetFulFillmentArrByOrder \/ MatchOrders \/ Return

SpecMatch == Init /\ [][NextMatch]_vars

NextApproval == GetApprovalStatus \/ Return

SpecApproval == Init /\ [][NextApproval]_vars

NextItem == GetItem \/ GetOfferOrConsiderationItem \/ Return

SpecItem == Init /\ [][NextItem]_vars

NextCreate ==
    \/ CreateOrder
    \/ GetAddressReturns
    \/ GetCounterReturns
    \/ GetOrderHashReturns
    \/ GetOrderStatusReturns
    \/ SignTypedDataReturns
    \/ RemoteCallFails
    \/ FulfillCreatedOrder
    \/ Return

SpecCreate == Init /\ [][NextCreate]_vars

-----------------------------------------------------------------------------
(* Claims about SDK.fulfillOrder *)

Types(items) == [i \in 1 .. Len(items) |-> items[i].itemType]

Offer == order.parameters.offer
Consideration == order.parameters.consideration

DidFulfillOrder == pc = "done" /\ op = "fulfillOrder"

\* An Order (no counter field) with a falsy numerator, fulfilled without
\* criteria resolvers
PlainFulfill ==
    /\ DidFulfillOrder
    /\ order.hasParameters
    /\ order.counter = Undefined
    /\ ~ Truthy(order.numerator)
    /\ criteriaResolvers = << >>

\* C1: with one ERC20 offer item and a non-empty consideration list,
\* fulfillBasicOrder is called iff the first consideration item is ERC721 or
\* ERC1155 and every remaining consideration item is ERC20; otherwise
\* fulfillOrder is called
C1_BasicIffOnlyERC20FeeLegs ==
    ( /\ PlainFulfill
      /\ Len(Offer) = 1
      /\ Offer[1].itemType = 1
      /\ Len(Consideration) >= 1 )
    => IF /\ Consideration[1].itemType \in { 2, 3 }
          /\ \A i \in 2 .. Len(Consideration) : Consideration[i].itemType = 1
       THEN calls = << "fulfillBasicOrder" >>
       ELSE calls = << "fulfillOrder" >>

\* C2: with an offer that is not a single ERC20 item, fulfillBasicOrder is
\* called iff the offer is one item of type Native, ERC721 or ERC1155, the
\* first consideration item is Native or ERC20 and every remaining
\* consideration item has that same type; otherwise fulfillOrder is called
C2_BasicIffConcreteOfferHomogeneousLegs ==
    ( /\ PlainFulfill
      /\ Len(Offer) >= 1
      /\ ~ (Len(Offer) = 1 /\ Offer[1].itemType = 1)
      /\ Len(Consideration) >= 1 )
    => IF /\ Len(Offer) = 1
          /\ Offer[1].itemType \in { 0, 2, 3 }
          /\ Consideration[1].itemType \in { 0, 1 }
          /\ \A i \in 2 .. Len(Consideration) :
                Consideration[i].itemType = Consideration[1].itemType
       THEN calls = << "fulfillBasicOrder" >>
       ELSE calls = << "fulfillOrder" >>

TookBasicPath == DidFulfillOrder /\ calls = << "fulfillBasicOrder" >>

\* C3 as stated: on the basic path basicOrderType = orderType + 4 * route,
\* an order offering one ERC20 item for [ERC721, ERC20 fee] is Basic with
\* route code 2 (ERC20ForERC721), and with a second ERC721 consideration
\* item it is Generic
C3_ERC20OfferRouteIsCode2 ==
    /\ TookBasicPath =>
          basicOrderParameters.basicOrderType
              = order.parameters.orderType + 4 * basicOrderParameters.route
    /\ (PlainFulfill /\ Types(Offer) = << 1 >> /\ Types(Consideration) = << 2, 1 >>)
          => (TookBasicPath /\ basicOrderParameters.route = 2)
    /\ (PlainFulfill /\ Types(Offer) = << 1 >> /\ Types(Consideration) = << 2, 1, 2 >>)
          => calls = << "fulfillOrder" >>

\* The route table, read as "what the fulfiller gives for what is offered"
RouteTable(offerItemType, cnItemType) ==
    CASE offerItemType = 2 /\ cnItemType = 0 -> 0   \* EthForERC721
      [] offerItemType = 3 /\ cnItemType = 0 -> 1   \* EthForERC1155
      [] offerItemType = 2 /\ cnItemType = 1 -> 2   \* ERC20ForERC721
      [] offerItemType = 3 /\ cnItemType = 1 -> 3   \* ERC20ForERC1155
      [] offerItemType = 1 /\ cnItemType = 2 -> 4   \* ERC721forERC20
      [] offerItemType = 1 /\ cnItemType = 3 -> 5   \* ERC1155forERC20
      [] OTHER -> -1

\* C3 (amended): on the basic path basicOrderType = orderType + 4 * route;
\* for an offer item of type ERC20, ERC721 or ERC1155 the route is the table
\* entry of the (offer type, first consideration type) pair, where the
\* offered item is the one named last: an order offering one ERC20 item for
\* [ERC721, ERC20 fee] is Basic with route code 4 (ERC721forERC20), and with
\* a second ERC721 consideration item it is Generic
C3_RouteByOfferAndConsideration ==
    /\ TookBasicPath =>
          /\ basicOrderParameters.basicOrderType
                = order.parameters.orderType + 4 * basicOrderParameters.route
          /\ Offer[1].itemType \in { 1, 2, 3 } =>
                basicOrderParameters.route
                    = RouteTable(Offer[1].itemType, Consideration[1].itemType)
    /\ (PlainFulfill /\ Types(Offer) = << 1 >> /\ Types(Consideration) = << 2, 1 >>)
          => (TookBasicPath /\ basicOrderParameters.route = 4)
    /\ (PlainFulfill /\ Types(Offer) = << 1 >> /\ Types(Consideration) = << 2, 1, 2 >>)
          => calls = << "fulfillOrder" >>

C3_Witness ==
    /\ PlainFulfill
    /\ Types(Offer) = << 1 >>
    /\ Types(Consideration) = << 2, 1 >>
    /\ order.parameters.orderType = 2
    /\ TookBasicPath
    /\ basicOrderParameters.basicOrderType = 18

\* C4: an Order (no counter field) with a non-zero numerator, or fulfilled
\* with criteria resolvers, goes to fulfillAdvancedOrder, once, and to no
\* other entry point, whatever its offer and consideration lists
C4_AdvancedWheneverNumeratorOrResolvers ==
    ( /\ DidFulfillOrder
      /\ order.hasParameters
      /\ order.counter = Undefined
      /\ \/ (order.numerator.kind = "number" /\ order.numerator.v # 0)
         \/ Len(criteriaResolvers) > 0 )
    => /\ outcome = "returned"
       /\ calls = << "fulfillAdvancedOrder" >>

C4_Witness ==
    /\ DidFulfillOrder
    /\ order.counter = Undefined
    /\ order.numerator = Num(0)
    /\ Len(criteriaResolvers) > 0
    /\ Len(Offer) = 1
    /\ Len(Consideration) = 0
    /\ calls = << "fulfillAdvancedOrder" >>

-----------------------------------------------------------------------------
(* Claims about the payload-kind guards *)

BearsCounter(v) == v.counter.kind # "undefined"

GuardRejected == outcome = "threw" /\ calls = << >>

\* C9: fulfillOrder and validateOrders fail, calling nothing, for any value
\* that bears a counter (of any value, 0 included); cancelOrders fails,
\* calling nothing, if an element lacks a counter; a value of the right kind
\* passes the guard
C9_GuardByCounterPresence ==
    /\ (DidFulfillOrder /\ BearsCounter(order)) => GuardRejected
    /\ (DidFulfillOrder /\ ~ BearsCounter(order))
          => error # "Not orderComponents, give me order"
    /\ (pc = "done" /\ op = "validateOrders") =>
          IF \E i \in 1 .. Len(orderArr.elems) : BearsCounter(orderArr.elems[i])
          THEN GuardRejected
          ELSE calls = << "validate" >>
    /\ (pc = "done" /\ op = "cancelOrders") =>
          IF \E i \in 1 .. Len(orderArr.elems) : ~ BearsCounter(orderArr.elems[i])
          THEN GuardRejected
          ELSE calls = << "cancel" >>

-----------------------------------------------------------------------------
(* Claims about the cross-order matcher *)

DidGetFulFillmentArr == pc = "done" /\ op = "getFulFillmentArrByOrder"

OrderAt(k) == IF k = 0 THEN order ELSE orderToMatch

\* The offer items, as << orderIndex, itemIndex >> references
OfferRefs ==
    { << k, i >> : k \in { 0 }, i \in 0 .. Len(order.parameters.offer) - 1 }
    \cup { << k, i >> : k \in { 1 }, i \in 0 .. Len(orderToMatch.parameters.offer) - 1 }

\* Number of fulfillments of fArr whose offer side is exactly the reference r
TimesOffered(r) == Cardinality({ n \in 1 .. Len(fArr) : fArr[n][1] = << r >> })

\* C5 as stated: every offer item of either order is the offer side of
\* exactly one returned fulfillment
C5_EveryOfferItemInExactlyOneFulfillment ==
    DidGetFulFillmentArr => \A r \in OfferRefs : TimesOffered(r) = 1

\* Number of items of the consideration list of order k that have the token
\* of item o
SameTokenLegs(o, k) ==
    Cardinality({ j \in 1 .. Len(OrderAt(k).parameters.consideration) :
                    OrderAt(k).parameters.consideration[j].token = o.token })

HasCounterpart(o, k) ==
    \E j \in 1 .. Len(OrderAt(k).parameters.consideration) :
        LET c == OrderAt(k).parameters.consideration[j] IN
        c.token = o.token /\ c.identifierOrCriteria = o.identifierOrCriteria

\* C5 (amended): the offer side of every returned fulfillment is one offer
\* item; an offer item that is not ERC20 is the offer side of exactly one
\* fulfillment if the other order's consideration list has an item of its
\* token and identifier, and of none otherwise; an ERC20 offer item is the
\* offer side of one fulfillment for every consideration item, of either
\* order, that has its token
C5_OfferItemUseByKind ==
    DidGetFulFillmentArr =>
        /\ \A n \in 1 .. Len(fArr) : Len(fArr[n][1]) = 1 /\ fArr[n][1][1] \in OfferRefs
        /\ \A r \in OfferRefs :
              LET o == OrderAt(r[1]).parameters.offer[r[2] + 1] IN
              TimesOffered(r) =
                 IF o.itemType = 1
                 THEN SameTokenLegs(o, 0) + SameTokenLegs(o, 1)
                 ELSE IF HasCounterpart(o, 1 - r[1]) THEN 1 ELSE 0

\* An ERC20 offer item paying two legs, a non-fungible one with two
\* candidate legs, and an offer item without counterpart
C5_Witness ==
    /\ DidGetFulFillmentArr
    /\ \E r \in OfferRefs : TimesOffered(r) = 0
    /\ \E r \in OfferRefs :
          /\ OrderAt(r[1]).parameters.offer[r[2] + 1].itemType = 1
          /\ TimesOffered(r) = 2
    /\ \E r \in OfferRefs :
          LET o == OrderAt(r[1]).parameters.offer[r[2] + 1] IN
          /\ o.itemType # 1
          /\ TimesOffered(r) = 1
          /\ OrderAt(1 - r[1]).parameters.consideration = << o, o >>

\* The two-sided swap: order offers one non-fungible item and wants one
\* ERC20 item of another token, orderToMatch offers an ERC20 item of that
\* token and wants the non-fungible item
IsSwap ==
    /\ Len(order.parameters.offer) = 1
    /\ Len(order.parameters.consideration) = 1
    /\ Len(orderToMatch.parameters.offer) = 1
    /\ Len(orderToMatch.parameters.consideration) = 1
    /\ LET a == order.parameters.offer[1]
           b == orderToMatch.parameters.offer[1]
           ca == order.parameters.consideration[1]
           cb == orderToMatch.parameters.consideration[1] IN
       /\ a.itemType \in { 2, 3, 4, 5 }
       /\ b.itemType = 1
       /\ b.token # a.token
       /\ ca.itemType = 1
       /\ ca.token = b.token
       /\ cb.token = a.token
       /\ cb.identifierOrCriteria = a.identifierOrCriteria

\* C6: for a two-sided swap the matcher returns exactly
\* ([0,0] -> [1,0]) then ([1,0] -> [0,0])
C6_SwapYieldsTwoFulfillments ==
    (DidGetFulFillmentArr /\ IsSwap) =>
        fArr = << << << << 0, 0 >> >>, << << 1, 0 >> >> >>,
                  << << << 1, 0 >> >>, << << 0, 0 >> >> >> >>

C6_Witness ==
    /\ DidGetFulFillmentArr
    /\ IsSwap
    /\ order.parameters.offer[1].identifierOrCriteria = 1
    /\ Len(fArr) = 2

\* The fulfillments of fArr from an offer item of order k to a consideration
\* item of order m, in the order fArr has them
Pass(k, m) ==
    SelectSeq(fArr, LAMBDA f : f[1][1][1] = k /\ f[2][1][1] = m)

\* s is ordered by offer index and then by consideration index
ByOfferThenConsideration(s) ==
    \A a, b \in 1 .. Len(s) :
        a < b => \/ s[a][1][1][2] < s[b][1][1][2]
                 \/ s[a][1][1][2] = s[b][1][1][2] /\ s[a][2][1][2] < s[b][2][1][2]

\* C12 as stated: fArr is the concatenation of four whole passes, (A-offer
\* -> B-consideration), (A-offer -> A-consideration), (B-offer ->
\* A-consideration), (B-offer -> B-consideration), each ordered by offer
\* index and then by consideration index
C12_FourWholePassesInFixedOrder ==
    DidGetFulFillmentArr =>
        /\ fArr = Pass(0, 1) \o Pass(0, 0) \o Pass(1, 0) \o Pass(1, 1)
        /\ \A k, m \in { 0, 1 } : ByOfferThenConsideration(Pass(k, m))

\* The place of a fulfillment in the result: the offer item's order, its
\* index, whether the consideration item is of the offer item's own order,
\* the consideration item's index
Place(f) ==
    << f[1][1][1], f[1][1][2], IF f[2][1][1] = f[1][1][1] THEN 1 ELSE 0, f[2][1][2] >>

Before(p, q) ==
    \E i \in 1 .. 4 : p[i] < q[i] /\ \A k \in 1 .. i - 1 : p[k] = q[k]

\* C12 (amended): the fulfillments are returned offer item by offer item,
\* orderA's offer items in index order and then orderB's; for one offer item
\* its entries against the other order's consideration list come first and
\* its entries against its own order's list second, each by consideration
\* index
C12_OfferItemByOfferItem ==
    DidGetFulFillmentArr =>
        \A a, b \in 1 .. Len(fArr) : a < b => Before(Place(fArr[a]), Place(fArr[b]))

\* Two offer items of orderA, each with an entry against orderB's list and
\* one against orderA's own list
C12_Witness ==
    /\ DidGetFulFillmentArr
    /\ Len(fArr) >= 4
    /\ Place(fArr[1]) = << 0, 0, 0, 0 >>
    /\ Place(fArr[2]) = << 0, 0, 1, 0 >>
    /\ Place(fArr[3]) = << 0, 1, 0, 0 >>
    /\ Place(fArr[4]) = << 0, 1, 1, 0 >>

\* Consideration item c is a counterpart of offer item o: same token and,
\* unless o is ERC20, the same identifier
IsCounterpart(o, c) ==
    /\ c.token = o.token
    /\ o.itemType = 1 \/ c.identifierOrCriteria = o.identifierOrCriteria

\* The indices of the counterparts of o in the consideration list of order k
OwnCounterparts(o, k) ==
    { j \in 0 .. Len(OrderAt(k).parameters.consideration) - 1 :
        IsCounterpart(o, OrderAt(k).parameters.consideration[j + 1]) }

\* The fulfillments whose offer side is r and whose consideration side
\* references an item of the same order
OwnFulfillments(r) ==
    { n \in 1 .. Len(fArr) : fArr[n][1] = << r >> /\ fArr[n][2][1][1] = r[1] }

\* C13 as stated: for every offer item, whatever its type, that has a
\* counterpart in its own order's consideration list, the result has a
\* fulfillment from it to an item of the same order
C13_OwnListScannedForEveryOfferItem ==
    DidGetFulFillmentArr =>
        \A r \in OfferRefs :
            LET o == OrderAt(r[1]).parameters.offer[r[2] + 1] IN
            OwnCounterparts(o, r[1]) # { } => OwnFulfillments(r) # { }

\* C13 (amended): an order's own consideration list is scanned for its
\* ERC20 offer items only: for an ERC20 offer item the result has one
\* fulfillment to every item of its own order's consideration list that has
\* its token, and for an offer item of any other type the result has no
\* fulfillment to an item of its own order
C13_OwnListScannedForERC20Only ==
    DidGetFulFillmentArr =>
        \A r \in OfferRefs :
            LET o == OrderAt(r[1]).parameters.offer[r[2] + 1] IN
            IF o.itemType = 1
            THEN /\ \A j \in OwnCounterparts(o, r[1]) :
                       \E n \in OwnFulfillments(r) : fArr[n][2] = << << r[1], j >> >>
                 /\ Cardinality(OwnFulfillments(r)) = Cardinality(OwnCounterparts(o, r[1]))
            ELSE OwnFulfillments(r) = { }

\* An ERC20 offer item matched against its own order's list, and a
\* non-fungible one that has a counterpart there and is not
C13_Witness ==
    /\ DidGetFulFillmentArr
    /\ \E r \in OfferRefs :
          /\ OrderAt(r[1]).parameters.offer[r[2] + 1].itemType = 1
          /\ OwnFulfillments(r) # { }
    /\ \E r \in OfferRefs :
          LET o == OrderAt(r[1]).parameters.offer[r[2] + 1] IN
          /\ o.itemType # 1
          /\ OwnCounterparts(o, r[1]) # { }
          /\ OwnFulfillments(r) = { }

-----------------------------------------------------------------------------
(* Claims about SDK.matchOrders *)

DidMatchOrders == pc = "done" /\ op = "matchOrders"

\* order as it was handed to matchOrders: without the gap item, if one was
\* appended
OrderAsPassed ==
    IF gapAsset # << >> /\ outcome = "returned"
    THEN [order EXCEPT !.parameters.consideration = SubSeq(@, 1, Len(@) - 1)]
    ELSE order

\* The fulfillments derived for the same two orders without a gap asset
DerivedFulfillment == getFulfillment(getFulFillmentArrByOrder(OrderAsPassed, orderToMatch))

\* C7: with a gap asset and at least two derived fulfillments, the gap item
\* becomes the last consideration item of order, as many fulfillments are
\* sent as were derived, the second one has one more consideration
\* component, which references the gap item (order 0, the gap item's index),
\* and nothing else changes
C7_GapReferencePointsAtGapItem ==
    ( /\ DidMatchOrders
      /\ gapAsset # << >>
      /\ Len(DerivedFulfillment) >= 2 )
    => LET cn == order.parameters.consideration
           d == DerivedFulfillment IN
       /\ outcome = "returned"
       /\ calls = << "matchOrders" >>
       /\ cn[Len(cn)] = gapAsset[1]
       /\ Len(fulfillment) = Len(d)
       /\ \A n \in 1 .. Len(d) :
             /\ fulfillment[n].offerComponents = d[n].offerComponents
             /\ fulfillment[n].considerationComponents =
                   IF n = 2
                   THEN Append(d[n].considerationComponents,
                               [orderIndex |-> 0, itemIndex |-> Len(cn) - 1])
                   ELSE d[n].considerationComponents

\* The components are in range for the list [order, orderToMatch] as the
\* call left it
InRange(components, side) ==
    \A i \in 1 .. Len(components) :
        LET c == components[i] IN
        /\ c.orderIndex \in { 0, 1 }
        /\ c.itemIndex >= 0
        /\ c.itemIndex < Len(OrderAt(c.orderIndex).parameters[side])

\* C14: every fulfillment component handed to marketplaceContract.matchOrders,
\* with or without a gap asset, references order 0 or 1 and an item that
\* exists in that order's offer list (offer side) or consideration list
\* (consideration side, the gap item included)
C14_ComponentsInRange ==
    (DidMatchOrders /\ calls = << "matchOrders" >>) =>
        \A n \in 1 .. Len(fulfillment) :
            /\ InRange(fulfillment[n].offerComponents, "offer")
            /\ InRange(fulfillment[n].considerationComponents, "consideration")

-----------------------------------------------------------------------------
(* Claims about the approval oracle *)

DidGetApprovalStatus == pc = "done" /\ op = "getApprovalStatus"

ApprovedForAllOrForId ==
    \/ chain.isApprovedForAll
    \/ toLowerCase(chain.getApproved) = toLowerCase(exchangeAddress)

\* C8: Native is approved; ERC20 iff the allowance reaches MAX_APPROVAL minus
\* the buffer; ERC721 and ERC721WithCriteria iff approved for all or the
\* token's approved address is the spender, ignoring case; ERC1155 and
\* ERC1155WithCriteria iff approved for all; the call throws only for codes
\* outside 0..5
C8_ApprovalRuleForAllSixTypes ==
    DidGetApprovalStatus =>
        /\ outcome = "threw" <=> asset.itemType \notin ItemTypes
        /\ asset.itemType = 0 => approved
        /\ asset.itemType = 1 =>
              (approved <=> BNGte(chain.allowance,
                                  BNSub(MAX_APPROVAL, << 0, 0, 100000000, 0 >>)))
        /\ asset.itemType \in { 2, 4 } => (approved <=> ApprovedForAllOrForId)
        /\ asset.itemType \in { 3, 5 } => (approved <=> chain.isApprovedForAll)

-----------------------------------------------------------------------------
(* Claims about item construction *)

DidConstructItem ==
    pc = "done" /\ op \in { "getItem", "getOfferOrConsiderationItem" }

\* C10: item construction fails, returning no item, for an item-type code
\* outside 0..5, and for a code in 0..5 (the amounts being given) returns an
\* item of that type
C10_InvalidItemTypeRejected ==
    DidConstructItem =>
        /\ asset.itemType \notin ItemTypes => (outcome = "threw" /\ item = << >>)
        /\ (asset.itemType \in ItemTypes /\ asset.startAmount # << >>) =>
              /\ outcome = "returned"
              /\ Len(item) = 1
              /\ item[1].itemType = asset.itemType

-----------------------------------------------------------------------------
(* Claims about SDK.createOrder *)

DidCreateOrder == pc = "done" /\ op = "createOrder" /\ outcome = "returned"

\* The integer a BigNumber below 10^18 stands for
IntOf(b) == b[3] * 1000000000 + b[4]

MaxOf(a, b) == IF a >= b THEN a ELSE b

\* Sum of max(startAmount, endAmount) over the Native items of a list
RECURSIVE NativeTotal(_)
NativeTotal(items) ==
    IF Len(items) = 0 THEN 0
    ELSE (IF Head(items).itemType = 0
          THEN MaxOf(IntOf(Head(items).startAmount), IntOf(Head(items).endAmount))
          ELSE 0)
         + NativeTotal(Tail(items))

\* C11: the value createOrder returns is the sum, over the Native items of
\* the offer and consideration lists, of max(startAmount, endAmount); other
\* items contribute nothing and the value is 0 without Native items
C11_ValueIsSumOfNativeMaxima ==
    DidCreateOrder =>
        LET total == NativeTotal(locals.offer) + NativeTotal(locals.consideration) IN
        /\ created[1].value[1] = 0
        /\ created[1].value[2] = 0
        /\ IntOf(created[1].value) = total
        /\ created[1].value[4] < 1000000000

\* A Native offer item whose amount rises, a Native consideration item whose
\* amount falls and an ERC20 consideration item
C11_Witness ==
    /\ DidCreateOrder
    /\ \E i \in 1 .. Len(locals.offer) :
          /\ locals.offer[i].itemType = 0
          /\ BNGt(locals.offer[i].endAmount, locals.offer[i].startAmount)
    /\ \E i \in 1 .. Len(locals.consideration) :
          /\ locals.consideration[i].itemType = 0
          /\ BNGt(locals.consideration[i].startAmount, locals.consideration[i].endAmount)
    /\ \E i \in 1 .. Len(locals.consideration) : locals.consideration[i].itemType = 1
    /\ created[1].value = BN(800000000)

\* The remote calls of createOrder, in the order the code issues them
CreateCalls ==
    << "getAddress", "getCounter", "getOrderHash", "getOrderStatus", "_signTypedData" >>

\* The number of remote calls that have answered, as createOrder's locals
\* record them
Answered ==
    Cardinality({ f \in { "offerAddress", "counter", "orderHash", "orderStatus" } :
                    locals[f] # << >> })

\* C15: during and after createOrder the remote calls issued are a prefix of
\* getAddress, getCounter, getOrderHash, getOrderStatus, _signTypedData, each
\* issued once and only when the one before it has answered; getOrderHash
\* and _signTypedData are handed the same order components, whose counter
\* is the value getCounter answered; a failure ends the call, which returns
\* nothing and has issued no call after the one that failed
C15_RemoteCallsInCausalOrder ==
    op = "createOrder" =>
        /\ Len(calls) <= Len(CreateCalls)
        /\ calls = SubSeq(CreateCalls, 1, Len(calls))
        /\ Len(calls) = 1 + Answered
        /\ pc \in Awaiting => calls[Len(calls)] = pc
        /\ locals.hashed # << >> =>
              /\ Len(calls) >= 3
              /\ locals.counter # << >>
              /\ locals.hashed[1].counter = locals.counter[1]
        /\ locals.signed # << >> =>
              /\ Len(calls) = 5
              /\ locals.signed = locals.hashed
        /\ Len(calls) >= 3 => locals.hashed # << >>
        /\ Len(calls) = 5 => locals.signed # << >>
        /\ outcome = "threw" => (pc = "done" /\ created = << >>)
        /\ created # << >> => (outcome = "returned" /\ calls = CreateCalls)

\* createOrder returned after the settlement contract answered counter 1
C15_Witness ==
    /\ DidCreateOrder
    /\ calls = CreateCalls
    /\ locals.counter = << BigNum(BN(1)) >>
    /\ locals.signed[1].counter = BigNum(BN(1))
    /\ created[1].orderComponents = locals.signed[1]

\* fulfillOrder was handed, without criteria resolvers, the order that
\* createOrder returned
DidFulfillCreatedOrder ==
    /\ DidFulfillOrder
    /\ created # << >>
    /\ order = created[1].order
    /\ criteriaResolvers = << >>

\* C16: a full order returned by createOrder (numerator 1, denominator 1)
\* and handed unchanged to fulfillOrder without criteria resolvers is
\* classified by its shape: fulfillBasicOrder (only with exactly one offer
\* item) or fulfillOrder is called, never fulfillAdvancedOrder
C16_CreatedFullOrderClassifiedByShape ==
    ( /\ DidFulfillCreatedOrder
      /\ order.parameters.orderType \in { 0, 2 }
      /\ Len(Consideration) >= 1 )
    => /\ calls # << "fulfillAdvancedOrder" >>
       /\ calls \in { << "fulfillBasicOrder" >>, << "fulfillOrder" >> }
       /\ calls = << "fulfillBasicOrder" >> => Len(Offer) = 1
       /\ Len(Offer) # 1 => calls = << "fulfillOrder" >>

====
